---- MODULE Spec2Model ----
(***************************************************************************)
(* Model of the Docker Hub rate-limit exporter (src/main.go).              *)
(*                                                                         *)
(* The state is the Exporter struct (mutex, cached auth token, last        *)
(* observation, the two counters) plus, for every goroutine that serves    *)
(* one collection request, its position in Collect/scrape and its locals.  *)
(* The two HTTP endpoints and the clock are the environment: every request *)
(* is answered by a nondeterministic choice among the outcomes listed      *)
(* below.  Strings that the code parses (the rate-limit headers) are       *)
(* sequences of one-character strings.                                     *)
(***************************************************************************)
EXTENDS Integers, Sequences, FiniteSets, TLC

\* ------------------------------------------------------------------ bounds

MaxTime == 2         \* the clock runs over 0..MaxTime (seconds)
MaxExpiresIn == 4    \* expires_in of an auth response ranges over -1..MaxExpiresIn
MaxHundreds == 1     \* well-formed headers carry 76 or 100, ..., 100 * MaxHundreds
MaxSkew == 1         \* the server's clock is up to MaxSkew seconds off the local one

\* ------------------------------------------------------- program constants

tokenExpiryBufferInSeconds == 2

\* The zero time.Time (year 1), the value of IssuedAt when issued_at is not in
\* the JSON body: far before every reading of the clock.
ZeroTime == 0 - 1000

\* The goroutines that call Collect, one per collection request served; they
\* may run one after the other or concurrently.
Procs == {"g1", "g2"}

\* ------------------------------------------------------------ environment

\* Optional values: <<>> is absent / nil, <<x>> is present.
Opt(S) == {<<>>} \cup {<<x>> : x \in S}

Get(o, zero) == IF o = <<>> THEN zero ELSE o[1]

StatusCodes == {200, 299, 300, 403}

\* A complete body of an authentication response issued at server time t.
FullBody(t) ==
    [json |-> TRUE, token |-> <<"a">>, access_token |-> <<"a">>,
     expires_in |-> <<MaxExpiresIn>>, issued_at |-> <<t>>]

\* The JSON object {}.
EmptyObject ==
    [json |-> TRUE, token |-> <<>>, access_token |-> <<>>,
     expires_in |-> <<>>, issued_at |-> <<>>]

\* A body that is not JSON.
NotJSON ==
    [json |-> FALSE, token |-> <<>>, access_token |-> <<>>,
     expires_in |-> <<>>, issued_at |-> <<>>]

\* The JSON objects the authentication endpoint may answer at server time t:
\* {}, and the complete body with one field left out or given another value.
AuthObjects(t) ==
    {EmptyObject}
    \cup {[FullBody(t) EXCEPT !.token = x] : x \in Opt({"a"})}
    \cup {[FullBody(t) EXCEPT !.access_token = x] : x \in Opt({"a", "b"})}
    \cup {[FullBody(t) EXCEPT !.expires_in = x] : x \in Opt(-1..MaxExpiresIn)}
    \cup {[FullBody(t) EXCEPT !.issued_at = x] : x \in Opt({t})}

\* The JSON objects of an authentication endpoint whose clock is not the local
\* one: complete bodies issued at server time t - MaxSkew, ..., t + MaxSkew,
\* valid for up to one second more than the buffer.
SkewObjects(t) ==
    {[FullBody(t) EXCEPT !.expires_in = <<x>>, !.issued_at = <<t + s>>] :
        x \in 0..(tokenExpiryBufferInSeconds + 1), s \in (0 - MaxSkew)..MaxSkew}

\* Characters of header values.
DigitChars == <<"0", "1", "2", "3", "4", "5", "6", "7", "8", "9">>

IsDigit(c) == \E i \in DOMAIN DigitChars : DigitChars[i] = c

DigitValue(c) == (CHOOSE i \in DOMAIN DigitChars : DigitChars[i] = c) - 1

\* The decimal rendering of a natural number, as the endpoint writes it.
RECURSIVE Fmt(_)
Fmt(n) == IF n < 10 THEN <<DigitChars[n + 1]>>
          ELSE Fmt(n \div 10) \o <<DigitChars[(n % 10) + 1]>>

\* The numbers of the well-formed headers: the two of the repository's test,
\* and further hundreds.
QuotaValues == {76} \cup {100 * n : n \in 1..MaxHundreds}

Windows == {<<"m", "6">>, <<"w", "=", "6", ";", "1">>}

\* "<number>;<window>", the documented shape of a rate-limit header value.
Render(n, w) == Fmt(n) \o <<";">> \o w

\* Header values with no number before the first ";": empty, blank, a letter,
\* nothing before the ";", a blank between number and ";", a letter after
\* the digits.
UnparsableStrings ==
    {<<>>, <<" ">>, <<"m">>, <<";", "m">>, <<"1", " ", ";", "m">>, <<"1", "m">>}

\* The number 1 in other shapes: without window, after a blank.
NumberStrings == {<<"1">>, <<" ", "1", ";", "m">>}

\* What the quota endpoint may put into one rate-limit header: nothing (the
\* header is missing), a well-formed value, a number in another shape or a
\* string without number.  kind and num describe the choice; text is the
\* header as sent.
MissingHeader == [kind |-> "absent", num |-> 0, text |-> <<>>]

WellFormed(n, w) == [kind |-> "wellformed", num |-> n, text |-> <<Render(n, w)>>]

HeaderChoices ==
    {MissingHeader}
    \cup {WellFormed(n, w) : n \in QuotaValues, w \in Windows}
    \cup {[kind |-> "number", num |-> 1, text |-> <<s>>] : s \in NumberStrings}
    \cup {[kind |-> "unparsable", num |-> 0, text |-> <<s>>] : s \in UnparsableStrings}

\* The rate-limit headers of one answer of the quota endpoint.
AllHeaders == [limit : HeaderChoices, remaining : HeaderChoices]

SourceChoices == Opt({"ip"})

\* The plain environment: the authentication endpoint answers the complete body
\* or something that is not JSON, the quota endpoint sends well-formed headers
\* or leaves a header out.
PlainObjects(t) == {FullBody(t)}

PlainHeaders ==
    [limit : {MissingHeader, WellFormed(100, <<"m", "6">>)},
     remaining : {MissingHeader, WellFormed(76, <<"m", "6">>)}]

\* ------------------------------------------------- pure functions of main.go

\* http.Header.Get: the value of the header, "" when it is missing.
HeaderGet(h) == Get(h, <<>>)

RECURSIVE TrimLeft(_)
TrimLeft(s) == IF s # <<>> /\ Head(s) = " " THEN TrimLeft(Tail(s)) ELSE s

RECURSIVE TrimRight(_)
TrimRight(s) ==
    IF s # <<>> /\ s[Len(s)] = " " THEN TrimRight(SubSeq(s, 1, Len(s) - 1)) ELSE s

\* strings.TrimSpace
TrimSpace(s) == TrimRight(TrimLeft(s))

\* strings.Split(s, ";")[0]: the part of s before the first ";".
RECURSIVE SplitFirst(_)
SplitFirst(s) ==
    IF s = <<>> \/ Head(s) = ";" THEN <<>> ELSE <<Head(s)>> \o SplitFirst(Tail(s))

RECURSIVE DecimalValue(_)
DecimalValue(s) ==
    IF s = <<>> THEN 0
    ELSE 10 * DecimalValue(SubSeq(s, 1, Len(s) - 1)) + DigitValue(s[Len(s)])

\* strconv.ParseFloat(value, 64) on the strings of this model (digits, ";",
\* blanks, letters): a non-empty string of digits is its value, anything else
\* is a syntax error.
ParseFloat(s) ==
    IF s # <<>> /\ \A i \in DOMAIN s : IsDigit(s[i])
    THEN [err |-> FALSE, value |-> DecimalValue(s)]
    ELSE [err |-> TRUE, value |-> 0]

\* A parseFloat that does not cut the window descriptor off.
parseFloatWholeValue(s) == ParseFloat(TrimSpace(s))

parseFloat(s) == ParseFloat(SplitFirst(TrimSpace(s)))

\* A parseRateLimitHeaders that does not look at the error of the second header.
parseRateLimitHeadersLimitOnly(res) ==
    LET l == parseFloat(HeaderGet(res.limit))
        r == parseFloat(HeaderGet(res.remaining))
    IN  IF l.err
        THEN [err |-> TRUE, limit |-> l.value, remaining |-> 0, sourceIp |-> ""]
        ELSE [err |-> FALSE, limit |-> l.value, remaining |-> r.value,
              sourceIp |-> Get(res.source, "")]

\* res is the header set of a 2xx response.
parseRateLimitHeaders(res) ==
    LET l == parseFloat(HeaderGet(res.limit))
        r == parseFloat(HeaderGet(res.remaining))
    IN  IF l.err
        THEN [err |-> TRUE, limit |-> l.value, remaining |-> 0, sourceIp |-> ""]
        ELSE IF r.err
        THEN [err |-> TRUE, limit |-> l.value, remaining |-> r.value, sourceIp |-> ""]
        ELSE [err |-> FALSE, limit |-> l.value, remaining |-> r.value,
              sourceIp |-> Get(res.source, "")]

\* fetchHTTP's status test.
StatusOK(code) == code >= 200 /\ code < 300

\* time.Time.Add and time.Time.Before, time in seconds.
Add(t, d) == t + d

Before(t, u) == t < u

\* An expiry without the buffer.
roughExpiryNoBuffer(a) == Add(a.IssuedAt, a.ExpiresIn)

roughExpiry(a) == Add(a.IssuedAt, a.ExpiresIn - tokenExpiryBufferInSeconds)

\* A judgment that still accepts the token at the instant of its rough expiry.
isUsableInclusive(a, clock) == ~Before(roughExpiry(a), clock)

isUsable(a, clock) == Before(clock, roughExpiry(a))

\* A hasUsableToken that takes every held token for usable.
hasUsableTokenWhenHeld(held, clock) == held # <<>>

\* held is e.authToken: <<>> for nil, <<a>> for a token.
hasUsableToken(held, clock) ==
    IF held = <<>> THEN FALSE ELSE isUsable(held[1], clock)

\* json.Decoder.Decode into a zero AuthTokenResponse: an error when the body is
\* not JSON; a field that is not in the object keeps its zero value.
Decode(body) ==
    IF ~body.json
    THEN [err |-> TRUE, token |-> <<>>]
    ELSE [err |-> FALSE,
          token |-> <<[Token       |-> Get(body.token, ""),
                       AccessToken |-> Get(body.access_token, ""),
                       ExpiresIn   |-> Get(body.expires_in, 0),
                       IssuedAt    |-> Get(body.issued_at, ZeroTime)]>>]

\* A parseTokenResponse that decodes into the held token: a field that is not
\* in the object keeps the value the held token has.
parseTokenResponsePatches(held, body) ==
    LET old == IF held = <<>>
               THEN [Token |-> "", AccessToken |-> "", ExpiresIn |-> 0,
                     IssuedAt |-> ZeroTime]
               ELSE held[1]
        new == [Token       |-> Get(body.token, old.Token),
                AccessToken |-> Get(body.access_token, old.AccessToken),
                ExpiresIn   |-> Get(body.expires_in, old.ExpiresIn),
                IssuedAt    |-> Get(body.issued_at, old.IssuedAt)]
    IN  IF ~body.json
        THEN [err |-> TRUE, authToken |-> held, token |-> <<>>]
        ELSE [err |-> FALSE, authToken |-> <<new>>, token |-> <<new.Token>>]

\* A parseTokenResponse that stores the token before it looks at the error.
parseTokenResponseStoresFirst(held, body) ==
    LET d == Decode(body)
        zero == <<[Token |-> "", AccessToken |-> "", ExpiresIn |-> 0,
                   IssuedAt |-> ZeroTime]>>
    IN  IF d.err
        THEN [err |-> TRUE, authToken |-> zero, token |-> <<>>]
        ELSE [err |-> FALSE, authToken |-> d.token, token |-> <<d.token[1].Token>>]

\* The result of parseTokenResponse: the error, e.authToken afterwards and the
\* token string returned.
parseTokenResponse(held, body) ==
    LET d == Decode(body)
    IN  IF d.err
        THEN [err |-> TRUE, authToken |-> held, token |-> <<>>]
        ELSE [err |-> FALSE, authToken |-> d.token, token |-> <<d.token[1].Token>>]

\* -------------------------------------------------------------------- state

VARIABLES
    credentials,     \* e.credentials: <<>> for nil, <<c>> when configured
    mu,              \* e.mu: <<>> when free, <<p>> when goroutine p holds it
    now,             \* the latest reading of the clock
    totalScrapes,    \* e.totalScrapes
    scrapeFailures,  \* e.scrapeFailures
    limit,           \* e.limit
    remaining,       \* e.remaining
    sourceIP,        \* e.sourceIP
    authToken,       \* e.authToken: <<>> for nil, <<a>> for a token
    pc,              \* pc[p]: where goroutine p is in Collect
    loc,             \* loc[p]: the locals of p's call of scrape and what it has seen
    ch,              \* ch[p]: the metrics p's Collect has sent on its channel
    lastGood,        \* the values parsed by the latest scrape whose parse succeeded
    replaced         \* how many scrapes have replaced the observation

vars == <<credentials, mu, now, totalScrapes, scrapeFailures, limit, remaining,
          sourceIP, authToken, pc, loc, ch, lastGood, replaced>>

\* The fields of the Exporter that a scrape may change.
Snapshot ==
    [limit |-> limit, remaining |-> remaining, sourceIP |-> sourceIP,
     totalScrapes |-> totalScrapes, scrapeFailures |-> scrapeFailures,
     authToken |-> authToken]

NoHeaders == [limit |-> [kind |-> "none", num |-> 0],
              remaining |-> [kind |-> "none", num |-> 0], source |-> <<>>]

\* The locals of scrape before it has done anything.
\*   pre      the Exporter when scrape was entered
\*   judged   <<>> or the clock hasUsableToken read and its answer
\*   auth     what came of the request to the authentication endpoint: "none"
\*            (no request), "error", "status" (not 2xx), "notjson", "empty"
\*            (the object {}) or "object"
\*   basic    <<>> or the Basic credentials that request carried
\*   token    <<>> or the string fetchToken returned
\*   probe    what came of the request to the quota endpoint: "none", "error",
\*            "status" or "answered"
\*   bearer   <<>> or the bearer token that request carried
\*   headers  the rate-limit headers of the answer, as the endpoint chose them
\*   err      the error fetchRateLimit returned
\*   parsed   the values fetchRateLimit returned
\*   requests the endpoints fetchHTTP was called for, in order
\*   body     <<>> or the JSON object parseTokenResponse has decoded
BlankLoc ==
    [pre |-> <<>>, judged |-> <<>>, auth |-> "none", basic |-> <<>>,
     token |-> <<>>, probe |-> "none", bearer |-> <<>>, headers |-> NoHeaders,
     err |-> FALSE, parsed |-> [limit |-> 0, remaining |-> 0, sourceIp |-> ""],
     requests |-> <<>>, body |-> <<>>]

BlankCh == [limit |-> <<>>, remaining |-> <<>>, counters |-> FALSE,
            end |-> <<>>, totalScrapes |-> <<>>, scrapeFailures |-> <<>>]

Init ==
    /\ credentials \in Opt({[username |-> "username", passphrase |-> "password"]})
    /\ mu = <<>>
    /\ now = 0
    /\ totalScrapes = 0
    /\ scrapeFailures = 0
    /\ limit = 0
    /\ remaining = 0
    /\ sourceIP = ""
    /\ authToken = <<>>
    /\ pc = [p \in Procs |-> "idle"]
    /\ loc = [p \in Procs |-> BlankLoc]
    /\ ch = [p \in Procs |-> BlankCh]
    /\ lastGood = [limit |-> 0, remaining |-> 0, sourceIp |-> ""]
    /\ replaced = 0

\* ------------------------------------------------------------------ actions

\* A Collect that does not wait for the lock.
LockWithoutWaiting(p) ==
    /\ pc[p] = "idle"
    /\ mu' = <<p>>
    /\ pc' = [pc EXCEPT ![p] = "scrape"]
    /\ UNCHANGED <<replaced, credentials, now, totalScrapes, scrapeFailures, limit,
                   remaining, sourceIP, authToken, loc, ch, lastGood>>

\* Collect: e.mu.Lock()
Lock(p) ==
    /\ pc[p] = "idle"
    /\ mu = <<>>
    /\ mu' = <<p>>
    /\ pc' = [pc EXCEPT ![p] = "scrape"]
    /\ UNCHANGED <<replaced, credentials, now, totalScrapes, scrapeFailures, limit,
                   remaining, sourceIP, authToken, loc, ch, lastGood>>

\* A scrape that starts without counting the attempt.
ScrapeBeginWithoutInc(p) ==
    /\ pc[p] = "scrape"
    /\ loc' = [loc EXCEPT ![p] = [BlankLoc EXCEPT !.pre = <<Snapshot>>]]
    /\ pc' = [pc EXCEPT ![p] = "fetchToken"]
    /\ UNCHANGED <<replaced, credentials, mu, now, totalScrapes, scrapeFailures, limit,
                   remaining, sourceIP, authToken, ch, lastGood>>

\* scrape: e.totalScrapes.Inc()
ScrapeBegin(p) ==
    /\ pc[p] = "scrape"
    /\ totalScrapes' = totalScrapes + 1
    /\ loc' = [loc EXCEPT ![p] = [BlankLoc EXCEPT !.pre = <<Snapshot>>]]
    /\ pc' = [pc EXCEPT ![p] = "fetchToken"]
    /\ UNCHANGED <<replaced, credentials, mu, now, scrapeFailures, limit, remaining,
                   sourceIP, authToken, ch, lastGood>>

\* A fetchToken that asks for a new token whatever the judgment says.
FetchTokenAlwaysExchanges(p) ==
    /\ pc[p] = "fetchToken"
    /\ \E t \in now..MaxTime :
          /\ now' = t
          /\ loc' = [loc EXCEPT ![p].judged =
                         <<[clock |-> t, usable |-> hasUsableToken(authToken, t)]>>]
    /\ pc' = [pc EXCEPT ![p] = "exchange"]
    /\ UNCHANGED <<replaced, credentials, mu, totalScrapes, scrapeFailures, limit,
                   remaining, sourceIP, authToken, ch, lastGood>>

\* A fetchToken that reuses whatever token is held, without judging it.
FetchTokenReusesAnyHeld(p) ==
    /\ pc[p] = "fetchToken"
    /\ \E t \in now..MaxTime :
          /\ now' = t
          /\ LET j == <<[clock |-> t, usable |-> hasUsableToken(authToken, t)]>>
             IN  IF authToken # <<>>
                 THEN /\ loc' = [loc EXCEPT
                                    ![p].judged = j,
                                    ![p].token = <<authToken[1].AccessToken>>]
                      /\ pc' = [pc EXCEPT ![p] = "probe"]
                 ELSE /\ loc' = [loc EXCEPT ![p].judged = j]
                      /\ pc' = [pc EXCEPT ![p] = "exchange"]
    /\ UNCHANGED <<replaced, credentials, mu, totalScrapes, scrapeFailures, limit,
                   remaining, sourceIP, authToken, ch, lastGood>>

\* fetchToken: if e.hasUsableToken() { return &e.authToken.AccessToken, nil }
\* e.clock() reads t, the time that has come since the clock was last read.
FetchToken(p) ==
    /\ pc[p] = "fetchToken"
    /\ \E t \in now..MaxTime :
          /\ now' = t
          /\ LET usable == hasUsableToken(authToken, t)
                 j == <<[clock |-> t, usable |-> usable]>>
             IN  IF usable
                 THEN /\ loc' = [loc EXCEPT
                                    ![p].judged = j,
                                    ![p].token = <<authToken[1].AccessToken>>]
                      /\ pc' = [pc EXCEPT ![p] = "probe"]
                 ELSE /\ loc' = [loc EXCEPT ![p].judged = j]
                      /\ pc' = [pc EXCEPT ![p] = "exchange"]
    /\ UNCHANGED <<replaced, credentials, mu, totalScrapes, scrapeFailures, limit,
                   remaining, sourceIP, authToken, ch, lastGood>>

\* A fetchToken that falls back on the held token when the request fails.
ExchangeErrorFallsBack(p) ==
    /\ pc[p] = "exchange"
    /\ IF authToken # <<>>
       THEN /\ loc' = [loc EXCEPT ![p].auth = "error", ![p].basic = credentials,
                                  ![p].requests = Append(@, "auth"),
                                  ![p].token = <<authToken[1].AccessToken>>]
            /\ pc' = [pc EXCEPT ![p] = "probe"]
       ELSE /\ loc' = [loc EXCEPT ![p].auth = "error", ![p].basic = credentials,
                                  ![p].requests = Append(@, "auth"),
                                  ![p].err = TRUE]
            /\ pc' = [pc EXCEPT ![p] = "failed"]
    /\ UNCHANGED <<replaced, credentials, mu, now, totalScrapes, scrapeFailures, limit,
                   remaining, sourceIP, authToken, ch, lastGood>>

\* fetchToken, the request to the authentication endpoint fails: the URL is
\* malformed (http.NewRequest) or the transport fails (http.DefaultClient.Do).
ExchangeError(p) ==
    /\ pc[p] = "exchange"
    /\ loc' = [loc EXCEPT ![p].auth = "error", ![p].basic = credentials,
                          ![p].requests = Append(@, "auth"),
                          ![p].err = TRUE]
    /\ pc' = [pc EXCEPT ![p] = "failed"]
    /\ UNCHANGED <<replaced, credentials, mu, now, totalScrapes, scrapeFailures, limit,
                   remaining, sourceIP, authToken, ch, lastGood>>

\* A fetchToken that goes on without a token when the status is refused.
ExchangeRejectedSendsProbe(p) ==
    /\ pc[p] = "exchange"
    /\ \E status \in StatusCodes : ~StatusOK(status)
    /\ loc' = [loc EXCEPT ![p].auth = "status", ![p].basic = credentials,
                          ![p].requests = Append(@, "auth"),
                          ![p].token = <<"">>]
    /\ pc' = [pc EXCEPT ![p] = "probe"]
    /\ UNCHANGED <<replaced, credentials, mu, now, totalScrapes, scrapeFailures, limit,
                   remaining, sourceIP, authToken, ch, lastGood>>

\* fetchToken, the authentication endpoint answers with a status that fetchHTTP
\* refuses.
ExchangeRejected(p) ==
    /\ pc[p] = "exchange"
    /\ \E status \in StatusCodes : ~StatusOK(status)
    /\ loc' = [loc EXCEPT ![p].auth = "status", ![p].basic = credentials,
                          ![p].requests = Append(@, "auth"),
                          ![p].err = TRUE]
    /\ pc' = [pc EXCEPT ![p] = "failed"]
    /\ UNCHANGED <<replaced, credentials, mu, now, totalScrapes, scrapeFailures, limit,
                   remaining, sourceIP, authToken, ch, lastGood>>

\* fetchToken, the authentication endpoint answers with a status that fetchHTTP
\* accepts and the body `body`, of the kind `kind`: parseTokenResponse.
ExchangeBody(p, kind, body) ==
    /\ pc[p] = "exchange"
    /\ \E status \in StatusCodes : StatusOK(status)
    /\ LET r == parseTokenResponse(authToken, body)
       IN  /\ authToken' = r.authToken
           /\ IF r.err
              THEN /\ loc' = [loc EXCEPT ![p].auth = kind, ![p].basic = credentials,
                                         ![p].requests = Append(@, "auth"),
                                         ![p].err = TRUE]
                   /\ pc' = [pc EXCEPT ![p] = "failed"]
              ELSE /\ loc' = [loc EXCEPT ![p].auth = kind, ![p].basic = credentials,
                                         ![p].requests = Append(@, "auth"),
                                         ![p].body = <<body>>,
                                         ![p].token = r.token]
                   /\ pc' = [pc EXCEPT ![p] = "probe"]
    /\ UNCHANGED <<replaced, credentials, mu, now, totalScrapes, scrapeFailures, limit,
                   remaining, sourceIP, ch, lastGood>>

ExchangeAnswered(p, objects) ==
    \/ ExchangeBody(p, "notjson", NotJSON)
    \/ \E body \in objects :
          ExchangeBody(p, IF body = EmptyObject THEN "empty" ELSE "object", body)

\* fetchRateLimit, the request to the quota endpoint fails: the URL is malformed
\* or the transport fails.
ProbeError(p) ==
    /\ pc[p] = "probe"
    /\ loc' = [loc EXCEPT ![p].probe = "error", ![p].bearer = loc[p].token,
                          ![p].requests = Append(@, "quota"),
                          ![p].err = TRUE]
    /\ pc' = [pc EXCEPT ![p] = "failed"]
    /\ UNCHANGED <<replaced, credentials, mu, now, totalScrapes, scrapeFailures, limit,
                   remaining, sourceIP, authToken, ch, lastGood>>

\* A scrape that returns without counting a failure when the quota endpoint
\* answers with a refused status.
ProbeRejectedUncounted(p) ==
    /\ pc[p] = "probe"
    /\ \E status \in StatusCodes : ~StatusOK(status)
    /\ loc' = [loc EXCEPT ![p].probe = "status", ![p].bearer = loc[p].token,
                          ![p].requests = Append(@, "quota"),
                          ![p].err = TRUE]
    /\ pc' = [pc EXCEPT ![p] = "scraped"]
    /\ UNCHANGED <<replaced, credentials, mu, now, totalScrapes, scrapeFailures,
                   limit, remaining, sourceIP, authToken, ch, lastGood>>

\* fetchRateLimit, the quota endpoint answers with a status that fetchHTTP
\* refuses.
ProbeRejected(p) ==
    /\ pc[p] = "probe"
    /\ \E status \in StatusCodes : ~StatusOK(status)
    /\ loc' = [loc EXCEPT ![p].probe = "status", ![p].bearer = loc[p].token,
                          ![p].requests = Append(@, "quota"),
                          ![p].err = TRUE]
    /\ pc' = [pc EXCEPT ![p] = "failed"]
    /\ UNCHANGED <<replaced, credentials, mu, now, totalScrapes, scrapeFailures, limit,
                   remaining, sourceIP, authToken, ch, lastGood>>

\* fetchRateLimit, the quota endpoint answers with a status that fetchHTTP
\* accepts: parseRateLimitHeaders.
ProbeAnswered(p, headers) ==
    /\ pc[p] = "probe"
    /\ \E status \in StatusCodes : StatusOK(status)
    /\ \E h \in headers, src \in SourceChoices :
          LET r == parseRateLimitHeaders(
                       [limit |-> h.limit.text, remaining |-> h.remaining.text,
                        source |-> src])
              seen == [limit |-> [kind |-> h.limit.kind, num |-> h.limit.num],
                       remaining |-> [kind |-> h.remaining.kind,
                                      num |-> h.remaining.num],
                       source |-> src]
              out == [limit |-> r.limit, remaining |-> r.remaining,
                      sourceIp |-> r.sourceIp]
          IN  /\ loc' = [loc EXCEPT ![p].probe = "answered",
                                    ![p].bearer = loc[p].token,
                                    ![p].requests = Append(@, "quota"),
                                    ![p].headers = seen,
                                    ![p].err = r.err,
                                    ![p].parsed = out]
              /\ pc' = [pc EXCEPT ![p] = IF r.err THEN "failed" ELSE "update"]
              /\ lastGood' = IF r.err THEN lastGood ELSE out
    /\ UNCHANGED <<replaced, credentials, mu, now, totalScrapes, scrapeFailures, limit,
                   remaining, sourceIP, authToken, ch>>

\* A failure path that also forgets the last observation.
ScrapeFailClears(p) ==
    /\ pc[p] = "failed"
    /\ scrapeFailures' = scrapeFailures + 1
    /\ limit' = 0
    /\ remaining' = 0
    /\ sourceIP' = ""
    /\ pc' = [pc EXCEPT ![p] = "scraped"]
    /\ UNCHANGED <<replaced, credentials, mu, now, totalScrapes, authToken, loc, ch, lastGood>>

\* A scrape that tries once more after an error before it gives up.
ScrapeFailRetries(p) ==
    /\ pc[p] = "failed"
    /\ IF Len(loc[p].requests) < 2
       THEN /\ loc' = [loc EXCEPT ![p].err = FALSE]
            /\ pc' = [pc EXCEPT ![p] = "fetchToken"]
            /\ UNCHANGED scrapeFailures
       ELSE /\ scrapeFailures' = scrapeFailures + 1
            /\ pc' = [pc EXCEPT ![p] = "scraped"]
            /\ UNCHANGED loc
    /\ UNCHANGED <<replaced, credentials, mu, now, totalScrapes, limit, remaining,
                   sourceIP, authToken, ch, lastGood>>

\* scrape: if err != nil { e.scrapeFailures.Inc(); return }
ScrapeFail(p) ==
    /\ pc[p] = "failed"
    /\ scrapeFailures' = scrapeFailures + 1
    /\ pc' = [pc EXCEPT ![p] = "scraped"]
    /\ UNCHANGED <<replaced, credentials, mu, now, totalScrapes, limit, remaining,
                   sourceIP, authToken, loc, ch, lastGood>>

\* scrape: e.limit = rateLimit
SetLimit(p) ==
    /\ pc[p] = "update"
    /\ limit' = loc[p].parsed.limit
    /\ pc' = [pc EXCEPT ![p] = "update2"]
    /\ UNCHANGED <<replaced, credentials, mu, now, totalScrapes, scrapeFailures, remaining,
                   sourceIP, authToken, loc, ch, lastGood>>

\* An update that stores the limit as the remaining value.
SetRemainingFromLimit(p) ==
    /\ pc[p] = "update2"
    /\ remaining' = loc[p].parsed.limit
    /\ pc' = [pc EXCEPT ![p] = "update3"]
    /\ UNCHANGED <<replaced, credentials, mu, now, totalScrapes, scrapeFailures, limit,
                   sourceIP, authToken, loc, ch, lastGood>>

\* scrape: e.remaining = remaining
SetRemaining(p) ==
    /\ pc[p] = "update2"
    /\ remaining' = loc[p].parsed.remaining
    /\ pc' = [pc EXCEPT ![p] = "update3"]
    /\ UNCHANGED <<replaced, credentials, mu, now, totalScrapes, scrapeFailures, limit,
                   sourceIP, authToken, loc, ch, lastGood>>

\* An update that keeps the recorded origin when the answer names none.
SetSourceIPKeepsWhenEmpty(p) ==
    /\ pc[p] = "update3"
    /\ sourceIP' = IF loc[p].parsed.sourceIp = "" THEN sourceIP
                   ELSE loc[p].parsed.sourceIp
    /\ replaced' = replaced + 1
    /\ pc' = [pc EXCEPT ![p] = "scraped"]
    /\ UNCHANGED <<credentials, mu, now, totalScrapes, scrapeFailures, limit,
                   remaining, authToken, loc, ch, lastGood>>

\* scrape: e.sourceIP = sourceIP.  With this last assignment the scrape has
\* replaced the observation.
SetSourceIP(p) ==
    /\ pc[p] = "update3"
    /\ sourceIP' = loc[p].parsed.sourceIp
    /\ replaced' = replaced + 1
    /\ pc' = [pc EXCEPT ![p] = "scraped"]
    /\ UNCHANGED <<credentials, mu, now, totalScrapes, scrapeFailures, limit,
                   remaining, authToken, loc, ch, lastGood>>

\* Collect, scrape has returned:
\* ch <- MustNewConstMetric(e.limitDesc, GaugeValue, e.limit, e.sourceIP)
EmitLimit(p) ==
    /\ pc[p] = "scraped"
    /\ ch' = [ch EXCEPT ![p].limit = <<[value |-> limit, source_ip |-> sourceIP]>>]
    /\ loc' = [loc EXCEPT ![p] = BlankLoc]
    /\ pc' = [pc EXCEPT ![p] = "emit2"]
    /\ UNCHANGED <<replaced, credentials, mu, now, totalScrapes, scrapeFailures, limit,
                   remaining, sourceIP, authToken, lastGood>>

\* Collect: ch <- MustNewConstMetric(e.remainingDesc, GaugeValue, e.remaining, e.sourceIP)
EmitRemaining(p) ==
    /\ pc[p] = "emit2"
    /\ ch' = [ch EXCEPT ![p].remaining =
                            <<[value |-> remaining, source_ip |-> sourceIP]>>]
    /\ pc' = [pc EXCEPT ![p] = "emit3"]
    /\ UNCHANGED <<replaced, credentials, mu, now, totalScrapes, scrapeFailures, limit,
                   remaining, sourceIP, authToken, loc, lastGood>>

\* Collect: ch <- e.totalScrapes; ch <- e.scrapeFailures.  What is sent is the
\* counter itself, not a copy of its value.
EmitCounters(p) ==
    /\ pc[p] = "emit3"
    /\ ch' = [ch EXCEPT ![p].counters = TRUE]
    /\ pc' = [pc EXCEPT ![p] = "unlock"]
    /\ UNCHANGED <<replaced, credentials, mu, now, totalScrapes, scrapeFailures, limit,
                   remaining, sourceIP, authToken, loc, lastGood>>

\* A Collect that returns without releasing the mutex.
UnlockKeepsMutex(p) ==
    /\ pc[p] = "unlock"
    /\ ch' = [ch EXCEPT ![p].end = <<Snapshot>>]
    /\ pc' = [pc EXCEPT ![p] = "gather"]
    /\ UNCHANGED <<replaced, credentials, mu, now, totalScrapes, scrapeFailures, limit,
                   remaining, sourceIP, authToken, loc, lastGood>>

\* Collect returns: the deferred e.mu.Unlock().  end records the Exporter as
\* this Collect leaves it.
Unlock(p) ==
    /\ pc[p] = "unlock"
    /\ mu' = <<>>
    /\ ch' = [ch EXCEPT ![p].end = <<Snapshot>>]
    /\ pc' = [pc EXCEPT ![p] = "gather"]
    /\ UNCHANGED <<replaced, credentials, now, totalScrapes, scrapeFailures, limit,
                   remaining, sourceIP, authToken, loc, lastGood>>

\* The receiver of the channel writes out the counter e.totalScrapes it was
\* sent: it reads the counter's value then.
WriteTotalScrapes(p) ==
    /\ pc[p] = "gather"
    /\ ch' = [ch EXCEPT ![p].totalScrapes = <<totalScrapes>>]
    /\ pc' = [pc EXCEPT ![p] = "gather2"]
    /\ UNCHANGED <<replaced, credentials, mu, now, totalScrapes, scrapeFailures, limit,
                   remaining, sourceIP, authToken, loc, lastGood>>

\* The receiver writes out the counter e.scrapeFailures.
WriteScrapeFailures(p) ==
    /\ pc[p] = "gather2"
    /\ ch' = [ch EXCEPT ![p].scrapeFailures = <<scrapeFailures>>]
    /\ pc' = [pc EXCEPT ![p] = "served"]
    /\ UNCHANGED <<replaced, credentials, mu, now, totalScrapes, scrapeFailures, limit,
                   remaining, sourceIP, authToken, loc, lastGood>>

\* The request is answered and its goroutine ends.
Served(p) ==
    /\ pc[p] = "served"
    /\ ch' = [ch EXCEPT ![p] = BlankCh]
    /\ pc' = [pc EXCEPT ![p] = "done"]
    /\ UNCHANGED <<replaced, credentials, mu, now, totalScrapes, scrapeFailures, limit,
                   remaining, sourceIP, authToken, loc, lastGood>>

\* One step of goroutine p after it has taken the lock; the endpoints answer
\* with the JSON objects `objects` and the header values `headers`.
Work(p, objects, headers) ==
    \/ ScrapeBegin(p)
    \/ FetchToken(p)
    \/ ExchangeError(p)
    \/ ExchangeRejected(p)
    \/ ExchangeAnswered(p, objects)
    \/ ProbeError(p)
    \/ ProbeRejected(p)
    \/ ProbeAnswered(p, headers)
    \/ ScrapeFail(p)
    \/ SetLimit(p)
    \/ SetRemaining(p)
    \/ SetSourceIP(p)
    \/ EmitLimit(p)
    \/ EmitRemaining(p)
    \/ EmitCounters(p)
    \/ Unlock(p)
    \/ WriteTotalScrapes(p)
    \/ WriteScrapeFailures(p)
    \/ Served(p)

\* No collection request is being served.
Quiet == \A q \in Procs : pc[q] \in {"idle", "done"}

\* Collection requests arrive at any time, also while another one is being
\* served; the environment is the plain one.
Next == \E p \in Procs : Lock(p) \/ Work(p, PlainObjects(now), PlainHeaders)

Spec == Init /\ [][Next]_vars

\* Every goroutine keeps running, every request is answered or fails within
\* http.DefaultClient.Timeout, and the mutex passes the lock on to every
\* goroutine that waits for it.
Fairness ==
    \A p \in Procs :
        /\ WF_vars(Work(p, PlainObjects(now), PlainHeaders))
        /\ SF_vars(Lock(p))

SpecFair == Init /\ [][Next]_vars /\ Fairness

\* Collection requests arrive one after the other, as a single poller sends
\* them; the authentication endpoint answers every object.
NextAuth ==
    \E p \in Procs : (Quiet /\ Lock(p)) \/ Work(p, AuthObjects(now), PlainHeaders)

SpecAuth == Init /\ [][NextAuth]_vars

\* Collection requests arrive one after the other; the quota endpoint sends
\* every header value.
NextQuota ==
    \E p \in Procs : (Quiet /\ Lock(p)) \/ Work(p, PlainObjects(now), AllHeaders)

SpecQuota == Init /\ [][NextQuota]_vars

\* Collection requests arrive one after the other; the authentication endpoint
\* stamps its answers with a clock of its own.
NextSkew ==
    \E p \in Procs : (Quiet /\ Lock(p)) \/ Work(p, SkewObjects(now), PlainHeaders)

SpecSkew == Init /\ [][NextSkew]_vars

\* ------------------------------------------------------------------ claims

\* The Exporter as it was when p's scrape was entered.
Pre(p) == loc[p].pre[1]

\* p's call of scrape has returned (and Collect has not gone on yet).
Returned(p) == pc[p] = "scraped"

\* The observation is the same as when p's scrape was entered.
ObservationKept(p) ==
    /\ limit = Pre(p).limit
    /\ remaining = Pre(p).remaining
    /\ sourceIP = Pre(p).sourceIP

BadHeader(h) == h.kind \in {"absent", "unparsable"}

\* Something went wrong in p's scrape: a request failed, an endpoint answered
\* with a status outside 2xx, the authentication body was not JSON, or a
\* rate-limit header was missing or had no number.
FailureSeen(p) ==
    \/ loc[p].auth \in {"error", "status", "notjson"}
    \/ loc[p].probe \in {"error", "status"}
    \/ /\ loc[p].probe = "answered"
       /\ BadHeader(loc[p].headers.limit) \/ BadHeader(loc[p].headers.remaining)

\* C1: every failing scrape, whatever went wrong, adds exactly 1 to the
\* attempts counter and exactly 1 to the failures counter and leaves limit,
\* remaining and origin as they were before the scrape.
C1_FailureCountedObservationKept ==
    \A p \in Procs :
        Returned(p) /\ FailureSeen(p) =>
            /\ totalScrapes = Pre(p).totalScrapes + 1
            /\ scrapeFailures = Pre(p).scrapeFailures + 1
            /\ ObservationKept(p)

\* A scrape has failed on its second header after an earlier scrape had
\* recorded an observation.
C1_Witness ==
    \E p \in Procs :
        /\ Returned(p)
        /\ loc[p].headers.limit.kind = "wellformed"
        /\ loc[p].headers.remaining.kind = "unparsable"
        /\ Pre(p).limit # 0
        /\ Pre(p).limit # loc[p].headers.limit.num
        /\ Pre(p).sourceIP # ""

\* C2: a scrape that obtains a token and gets a 2xx answer with the headers
\* RateLimit-Limit: L;w and RateLimit-Remaining: R;w' ends with limit = L and
\* remaining = R, the attempts counter one higher and the failures counter
\* unchanged.
C2_WellFormedHeadersObserved ==
    \A p \in Procs :
        ( /\ Returned(p)
          /\ loc[p].token # <<>>
          /\ loc[p].probe = "answered"
          /\ loc[p].headers.limit.kind = "wellformed"
          /\ loc[p].headers.remaining.kind = "wellformed" ) =>
            /\ limit = loc[p].headers.limit.num
            /\ remaining = loc[p].headers.remaining.num
            /\ totalScrapes = Pre(p).totalScrapes + 1
            /\ scrapeFailures = Pre(p).scrapeFailures

\* A scrape with well-formed headers, L # R, has returned and has replaced an
\* earlier observation.
C2_Witness ==
    \E p \in Procs :
        /\ Returned(p)
        /\ loc[p].headers.limit.kind = "wellformed"
        /\ loc[p].headers.remaining.kind = "wellformed"
        /\ loc[p].headers.limit.num # loc[p].headers.remaining.num
        /\ limit = 100
        /\ remaining = 76
        /\ Pre(p).limit \notin {0, limit}

\* C3: whenever no scrape is in the middle of its update, the observation is
\* what the latest scrape with a successful parse has parsed, or zero/empty
\* when there has been none; failing scrapes never change it.
C3_ObservationIsLastGood ==
    (\A p \in Procs : pc[p] \notin {"update", "update2", "update3"}) =>
        /\ limit = lastGood.limit
        /\ remaining = lastGood.remaining
        /\ sourceIP = lastGood.sourceIp

\* A failed scrape has returned after an earlier one had succeeded, and the
\* observation of the earlier one stands.
C3_Witness ==
    \E p \in Procs :
        /\ Returned(p)
        /\ loc[p].err
        /\ Pre(p).totalScrapes = 1
        /\ Pre(p).scrapeFailures = 0
        /\ limit # remaining
        /\ limit = lastGood.limit

\* The usability judgment as the specification words it: the clock is strictly
\* before issued-at + (validity - buffer).
UsableAt(a, t) == t < a.IssuedAt + (a.ExpiresIn - tokenExpiryBufferInSeconds)

\* p's scrape has looked at a held token.
JudgedHeld(p) == loc[p].judged # <<>> /\ Pre(p).authToken # <<>>

HeldBy(p) == Pre(p).authToken[1]

ClockOf(p) == loc[p].judged[1].clock

GoodAnswer(p) ==
    /\ loc[p].probe = "answered"
    /\ loc[p].headers.limit.kind = "wellformed"
    /\ loc[p].headers.remaining.kind = "wellformed"

\* C4: a scrape that starts with a held credential that is usable at that
\* moment sends no request to the authentication endpoint and keeps the
\* credential; what the authentication endpoint would have answered cannot
\* matter, and with a good answer of the quota endpoint the scrape succeeds.
C4_UsableTokenReused ==
    \A p \in Procs :
        JudgedHeld(p) /\ UsableAt(HeldBy(p), ClockOf(p)) =>
            /\ loc[p].auth = "none"
            /\ authToken = Pre(p).authToken
            /\ Returned(p) /\ GoodAnswer(p) =>
                  /\ totalScrapes = Pre(p).totalScrapes + 1
                  /\ scrapeFailures = Pre(p).scrapeFailures

\* The second scrape, right after a successful first one, has reused the token
\* and succeeded: attempts = 2, failures = 0.
C4_Witness ==
    \E p \in Procs :
        /\ Returned(p)
        /\ JudgedHeld(p)
        /\ loc[p].judged[1].usable
        /\ loc[p].auth = "none"
        /\ totalScrapes = 2
        /\ scrapeFailures = 0

\* The positions of Collect between taking and releasing the lock.
InCollect ==
    {"scrape", "fetchToken", "exchange", "probe", "failed", "update", "update2",
     "update3", "scraped", "emit2", "emit3", "unlock"}

\* C5: at most one scrape is in flight at any time, and the goroutine that is
\* anywhere between token lookup and the end of Collect holds the lock.
C5_OneScrapeInFlight ==
    /\ Cardinality({p \in Procs : pc[p] \in InCollect}) <= 1
    /\ \A p \in Procs : pc[p] \in InCollect => mu = <<p>>

\* One goroutine is in the middle of its update while another has called
\* Collect and waits for the lock.
C5_Witness ==
    \E p \in Procs, q \in Procs :
        /\ pc[p] = "update2"
        /\ pc[q] = "idle"
        /\ totalScrapes = 1

\* C6: the five values a reader gets from one collect() are those of the
\* Exporter at the end of that collect's own scrape.
C6_ReaderSeesOneState ==
    \A p \in Procs :
        pc[p] = "served" =>
            /\ ch[p].limit[1].value = ch[p].end[1].limit
            /\ ch[p].remaining[1].value = ch[p].end[1].remaining
            /\ ch[p].limit[1].source_ip = ch[p].end[1].sourceIP
            /\ ch[p].remaining[1].source_ip = ch[p].end[1].sourceIP
            /\ ch[p].totalScrapes[1] = ch[p].end[1].totalScrapes
            /\ ch[p].scrapeFailures[1] = ch[p].end[1].scrapeFailures

\* C7: a held credential with validity > buffer is judged usable exactly when
\* the clock is strictly before issued-at + (validity - buffer): usable at the
\* instant of issuance, unusable at the threshold instant and after it.
C7_UsableStrictlyBeforeThreshold ==
    \A p \in Procs :
        JudgedHeld(p) /\ HeldBy(p).ExpiresIn > tokenExpiryBufferInSeconds =>
            LET a == HeldBy(p)
                threshold == a.IssuedAt + (a.ExpiresIn - tokenExpiryBufferInSeconds)
                usable == loc[p].judged[1].usable
            IN  /\ usable <=> ClockOf(p) < threshold
                /\ ClockOf(p) = a.IssuedAt => usable
                /\ ClockOf(p) >= threshold => ~usable

\* A credential with validity > buffer has been judged at exactly the
\* threshold instant, and found unusable.
C7_Witness ==
    \E p \in Procs :
        /\ JudgedHeld(p)
        /\ HeldBy(p).ExpiresIn > tokenExpiryBufferInSeconds
        /\ ClockOf(p) =
              HeldBy(p).IssuedAt + (HeldBy(p).ExpiresIn - tokenExpiryBufferInSeconds)
        /\ ~loc[p].judged[1].usable

\* C8: a held credential with validity <= buffer (equal to it, zero or
\* negative) is judged unusable at the instant of issuance and at every later
\* one.
C8_ShortLivedNeverUsable ==
    \A p \in Procs :
        ( /\ JudgedHeld(p)
          /\ HeldBy(p).ExpiresIn <= tokenExpiryBufferInSeconds
          /\ ClockOf(p) >= HeldBy(p).IssuedAt ) =>
            ~loc[p].judged[1].usable

\* A credential whose validity equals the buffer has been judged at the
\* instant of its issuance.
C8_Witness ==
    \E p \in Procs :
        /\ JudgedHeld(p)
        /\ HeldBy(p).ExpiresIn = tokenExpiryBufferInSeconds
        /\ ClockOf(p) = HeldBy(p).IssuedAt
        /\ ~loc[p].judged[1].usable

\* C9: a credential exchange that fails (request error, status outside 2xx,
\* body that is not JSON) leaves e.authToken as it was.
C9_FailedExchangeKeepsToken ==
    \A p \in Procs :
        loc[p].auth \in {"error", "status", "notjson"} =>
            authToken = Pre(p).authToken

\* An exchange has failed on a body that is not JSON while an expired
\* credential was held.
C9_Witness ==
    \E p \in Procs :
        /\ loc[p].auth = "notjson"
        /\ Pre(p).authToken # <<>>
        /\ HeldBy(p).Token = "a"
        /\ authToken = Pre(p).authToken

\* C10: a 2xx authentication answer whose body is the object {} fails the
\* exchange: the scrape is a failure, no credential is stored and no probe is
\* sent.
C10_EmptyObjectFailsExchange ==
    \A p \in Procs :
        Returned(p) /\ loc[p].auth = "empty" =>
            /\ loc[p].err
            /\ scrapeFailures = Pre(p).scrapeFailures + 1
            /\ authToken = Pre(p).authToken
            /\ loc[p].probe = "none"

\* p's probe was answered with a 2xx status and a rate-limit header was missing
\* or had no number.
HeaderFailure(p) ==
    /\ loc[p].probe = "answered"
    /\ BadHeader(loc[p].headers.limit) \/ BadHeader(loc[p].headers.remaining)

\* C11: in a scrape where RateLimit-Limit or RateLimit-Remaining is missing or
\* unparsable (also when the limit parses and remaining does not), limit,
\* remaining and origin stay as they were, no update step is taken, and the
\* scrape is counted as a failure.
C11_BadHeaderNoPartialUpdate ==
    \A p \in Procs :
        HeaderFailure(p) =>
            /\ ObservationKept(p)
            /\ pc[p] \in {"failed", "scraped"}
            /\ Returned(p) =>
                  /\ totalScrapes = Pre(p).totalScrapes + 1
                  /\ scrapeFailures = Pre(p).scrapeFailures + 1

\* A scrape whose limit header parsed and whose remaining header was missing
\* has returned, after an earlier scrape had recorded another limit and a
\* remaining value other than zero.
C11_Witness ==
    \E p \in Procs :
        /\ Returned(p)
        /\ loc[p].headers.limit.kind = "wellformed"
        /\ loc[p].headers.remaining.kind = "absent"
        /\ Pre(p).limit \notin {0, loc[p].headers.limit.num}
        /\ Pre(p).remaining # 0
        /\ remaining = Pre(p).remaining

\* The positions of scrape after its first statement.
AfterInc ==
    {"fetchToken", "exchange", "probe", "failed", "update", "update2", "update3"}

\* C12: no step lowers the attempts counter or the failures counter; the step
\* that enters scrape adds one to attempts whatever the state is, and does
\* nothing else (no clock reading, no request, no change of failures,
\* observation or credential); every step that reads the clock, sends a
\* request or changes failures, observation or credential belongs to a scrape
\* whose attempt is already counted.
C12_CountersMonotonicAttemptsFirst ==
    [][ /\ totalScrapes' >= totalScrapes
        /\ scrapeFailures' >= scrapeFailures
        /\ \A p \in Procs :
              pc[p] = "scrape" /\ pc'[p] # "scrape" =>
                  /\ totalScrapes' = totalScrapes + 1
                  /\ UNCHANGED <<now, scrapeFailures, limit, remaining, sourceIP,
                                 authToken>>
                  /\ loc'[p].judged = <<>>
                  /\ loc'[p].requests = <<>>
        /\ ( \/ <<now, scrapeFailures, limit, remaining, sourceIP, authToken>>' #
                    <<now, scrapeFailures, limit, remaining, sourceIP, authToken>>
             \/ \E p \in Procs : loc'[p].requests # loc[p].requests
                                      /\ loc'[p].requests # <<>> ) =>
              \E p \in Procs :
                  /\ pc[p] \in AfterInc
                  /\ pc'[p] # pc[p]
                  /\ totalScrapes = Pre(p).totalScrapes + 1
      ]_vars

\* The second scrape has counted its attempt and done nothing else yet, after a
\* first scrape that failed.
C12_Witness ==
    \E p \in Procs :
        /\ pc[p] = "fetchToken"
        /\ loc[p].judged = <<>>
        /\ totalScrapes = 2
        /\ scrapeFailures = 1
        /\ Pre(p).totalScrapes = 1

\* C13: when every request is answered or fails in bounded time, a Collect
\* that has taken the lock finishes its scrape, which returns to Collect on
\* every path, and releases the lock; when the lock is passed on fairly, every
\* Collect that was called completes.
C13_CollectCompletes ==
    \A p \in Procs :
        /\ (pc[p] = "scrape") ~> Returned(p)
        /\ (mu = <<p>>) ~> (mu # <<p>> /\ pc[p] = "gather")
        /\ (pc[p] = "idle") ~> (pc[p] = "done")

\* Two concurrent collects have both completed, one after a failed scrape and
\* one after a successful scrape.
C13_Witness ==
    /\ \A p \in Procs : pc[p] = "done"
    /\ totalScrapes = 2
    /\ scrapeFailures = 1
    /\ mu = <<>>

\* p's scrape has sent a request to the quota endpoint.
ProbeSent(p) ==
    \/ loc[p].probe # "none"
    \/ \E i \in DOMAIN loc[p].requests : loc[p].requests[i] = "quota"

\* C14: the request to the authentication endpoint carries Basic
\* authentication with the configured username and passphrase when
\* credentials are configured and none otherwise; when the endpoint refuses
\* the request with a status outside 2xx, no probe is sent and the scrape is
\* a failure.
C14_BasicAuthWhenConfigured ==
    \A p \in Procs :
        /\ loc[p].auth # "none" =>
              IF credentials = <<>>
              THEN loc[p].basic = <<>>
              ELSE loc[p].basic = <<[username |-> credentials[1].username,
                                     passphrase |-> credentials[1].passphrase]>>
        /\ loc[p].auth = "status" =>
              /\ ~ProbeSent(p)
              /\ pc[p] \in {"failed", "scraped"}
              /\ Returned(p) => scrapeFailures = Pre(p).scrapeFailures + 1

\* With credentials configured, the authentication endpoint has refused the
\* request that carried them, and the scrape has returned as a failure.
C14_Witness ==
    \E p \in Procs :
        /\ Returned(p)
        /\ credentials # <<>>
        /\ loc[p].auth = "status"
        /\ loc[p].basic = <<[username |-> "username", passphrase |-> "password"]>>
        /\ scrapeFailures = Pre(p).scrapeFailures + 1

\* p's scrape has turned to the authentication endpoint.
ExchangeStarted(p) == pc[p] = "exchange" \/ loc[p].auth # "none"

\* C15: a scrape turns to the authentication endpoint exactly when, at its
\* token lookup, no credential is held or the held one is unusable at the
\* time the clock shows; the first scrape starts with no credential and so
\* always does.
C15_ExchangeIffNoUsableToken ==
    \A p \in Procs :
        /\ loc[p].judged # <<>> =>
              ( ExchangeStarted(p) <=>
                  ( \/ Pre(p).authToken = <<>>
                    \/ ~UsableAt(HeldBy(p), ClockOf(p)) ) )
        /\ loc[p].pre # <<>> /\ Pre(p).totalScrapes = 0 =>
              /\ Pre(p).authToken = <<>>
              /\ loc[p].judged # <<>> => ExchangeStarted(p)

\* The second scrape has found the credential of the first one expired and
\* has obtained a new one by exchange.
C15_Witness ==
    \E p \in Procs :
        /\ JudgedHeld(p)
        /\ ~UsableAt(HeldBy(p), ClockOf(p))
        /\ HeldBy(p).ExpiresIn > tokenExpiryBufferInSeconds
        /\ loc[p].auth = "object"
        /\ Pre(p).totalScrapes = 1

\* fetchToken has returned an error in p's scrape.
TokenFailed(p) == loc[p].auth \in {"error", "status", "notjson"}

\* C16: when fetchToken fails in a scrape, also when it fails to replace an
\* expired credential, the scrape sends no request to the quota endpoint,
\* neither without token nor with the expired one, and ends as a failure.
C16_NoProbeWithoutToken ==
    \A p \in Procs :
        TokenFailed(p) =>
            /\ ~ProbeSent(p)
            /\ loc[p].bearer = <<>>
            /\ loc[p].err
            /\ pc[p] \in {"failed", "scraped"}
            /\ Returned(p) =>
                  /\ scrapeFailures = Pre(p).scrapeFailures + 1
                  /\ ObservationKept(p)

\* The request for a new credential has failed while an expired credential was
\* held, and the scrape has returned.
C16_Witness ==
    \E p \in Procs :
        /\ Returned(p)
        /\ loc[p].auth = "error"
        /\ JudgedHeld(p)
        /\ HeldBy(p).AccessToken # ""
        /\ ~loc[p].judged[1].usable
        /\ loc[p].requests = <<"auth">>

\* How many requests of the sequence reqs went to the endpoint e.
RequestsTo(reqs, e) == Cardinality({i \in DOMAIN reqs : reqs[i] = e})

\* C17: a scrape sends at most one request to the authentication endpoint and
\* at most one to the quota endpoint; once an error has come up in a scrape
\* no further request is sent, and requests are only sent from within a
\* scrape, so nothing is sent until the next Collect.
C17_NoRetry ==
    [][ \A p \in Procs :
          /\ RequestsTo(loc'[p].requests, "auth") <= 1
          /\ RequestsTo(loc'[p].requests, "quota") <= 1
          /\ loc'[p].requests # loc[p].requests /\ loc'[p].requests # <<>> =>
                /\ ~loc[p].err
                /\ pc[p] \in {"exchange", "probe"}
                /\ mu = <<p>>
                /\ Len(loc'[p].requests) = Len(loc[p].requests) + 1
          /\ loc[p].err /\ pc'[p] # pc[p] => pc'[p] = "scraped" \/ loc'[p] = BlankLoc
      ]_vars

\* A scrape has obtained a token by exchange, has failed at the quota
\* endpoint and has returned with one request to each endpoint.
C17_Witness ==
    \E p \in Procs :
        /\ Returned(p)
        /\ loc[p].err
        /\ loc[p].probe = "status"
        /\ loc[p].requests = <<"auth", "quota">>

\* p's scrape has reused the held credential and has sent a probe.
ReusedAndSent(p) ==
    /\ loc[p].judged # <<>>
    /\ loc[p].auth = "none"
    /\ loc[p].bearer # <<>>

\* C18: a scrape that reuses the held credential sends, as its bearer token,
\* the string that the scrape which obtained the credential has sent: the
\* Token of the credential, which parseTokenResponse returned then.
C18_ReuseSendsIssuedToken ==
    \A p \in Procs :
        ReusedAndSent(p) => loc[p].bearer[1] = HeldBy(p).Token

\* The credential a JSON object of the authentication endpoint stands for: its
\* token strings, validity and issuance timestamp, and nothing else.
FreshCredential(body) ==
    [Token       |-> IF body.token = <<>> THEN "" ELSE body.token[1],
     AccessToken |-> IF body.access_token = <<>> THEN "" ELSE body.access_token[1],
     ExpiresIn   |-> IF body.expires_in = <<>> THEN 0 ELSE body.expires_in[1],
     IssuedAt    |-> IF body.issued_at = <<>> THEN ZeroTime ELSE body.issued_at[1]]

\* The step in which p's exchange succeeds.
ExchangeSucceeds(p) == pc[p] = "exchange" /\ pc'[p] = "probe"

\* C19: e.authToken changes only in the step in which an exchange succeeds,
\* and then becomes the credential decoded from the body, with nothing of the
\* credential held before; every other step, the answer or failure of the
\* probe included, leaves it as it was.
C19_CredentialReplacedWholesale ==
    [][ /\ \A p \in Procs :
              ExchangeSucceeds(p) =>
                  authToken' = <<FreshCredential(loc'[p].body[1])>>
        /\ authToken' # authToken => \E p \in Procs : ExchangeSucceeds(p)
        /\ \A p \in Procs :
              pc[p] = "probe" /\ pc'[p] # "probe" => authToken' = authToken
      ]_vars

\* An exchange has replaced a held credential by one decoded from a body
\* without access_token: the access token held before is gone.
C19_Witness ==
    \E p \in Procs :
        /\ loc[p].auth = "object"
        /\ loc[p].body # <<>>
        /\ loc[p].body[1].access_token = <<>>
        /\ Pre(p).authToken # <<>>
        /\ HeldBy(p).AccessToken = "a"
        /\ authToken # <<>>
        /\ authToken[1].AccessToken = ""

\* The positions at which Collect reads the observation for its reader.
Reading == {"scraped", "emit2"}

\* C20: a scrape with a token, a 2xx answer and well-formed limit and
\* remaining headers succeeds with or without the origin header; it ends with
\* limit, remaining and origin all replaced, the origin by the header's value
\* or by the empty string when the header is missing, and no Collect reads the
\* observation between the three assignments.
C20_OriginReplacedWithObservation ==
    \A p \in Procs :
        /\ Returned(p) /\ loc[p].token # <<>> /\ GoodAnswer(p) =>
              /\ ~loc[p].err
              /\ scrapeFailures = Pre(p).scrapeFailures
              /\ limit = loc[p].headers.limit.num
              /\ remaining = loc[p].headers.remaining.num
              /\ sourceIP = IF loc[p].headers.source = <<>> THEN ""
                            ELSE loc[p].headers.source[1]
        /\ pc[p] \in {"update", "update2", "update3"} =>
              \A q \in Procs : pc[q] \notin Reading

\* A scrape without origin header has succeeded after an earlier scrape had
\* recorded an origin: the origin is empty now.
C20_Witness ==
    \E p \in Procs :
        /\ Returned(p)
        /\ GoodAnswer(p)
        /\ loc[p].headers.source = <<>>
        /\ Pre(p).sourceIP = "ip"
        /\ sourceIP = ""
        /\ limit = 100

\* A credential whose validity is not longer than the buffer.
ShortLived(a) == a.ExpiresIn <= tokenExpiryBufferInSeconds

\* p's scrape has obtained a short-lived credential by exchange.
ObtainedShortLived(p) ==
    loc[p].body # <<>> /\ ShortLived(FreshCredential(loc[p].body[1]))

\* The scrape that obtains a short-lived credential sends its probe with the
\* token it has just obtained and succeeds when the quota endpoint answers
\* well.
UsesObtainedToken(p) ==
    ObtainedShortLived(p) =>
        /\ loc[p].token = <<FreshCredential(loc[p].body[1]).Token>>
        /\ loc[p].bearer # <<>> => loc[p].bearer = loc[p].token
        /\ Returned(p) /\ GoodAnswer(p) =>
              /\ ~loc[p].err
              /\ scrapeFailures = Pre(p).scrapeFailures
              /\ limit = loc[p].headers.limit.num

\* C21: the scrape that obtains a credential with validity <= buffer uses it
\* for its own probe and can succeed, and every scrape that finds such a
\* credential held performs a new exchange: the credential is never reused.
C21_ShortLivedNeverReused ==
    \A p \in Procs :
        /\ UsesObtainedToken(p)
        /\ JudgedHeld(p) /\ ShortLived(HeldBy(p)) => ExchangeStarted(p)

\* C21, amended: as above, for every scrape whose clock is not before the
\* issuance timestamp of the held credential.
C21_ShortLivedNotReusedFromIssuance ==
    \A p \in Procs :
        /\ UsesObtainedToken(p)
        /\ ( /\ JudgedHeld(p)
             /\ ShortLived(HeldBy(p))
             /\ ClockOf(p) >= HeldBy(p).IssuedAt ) => ExchangeStarted(p)

\* Two scrapes in a row have each obtained a credential whose validity equals
\* the buffer and have both succeeded; the second one found the first one's
\* credential held, at the very instant of its issuance.
C21_Witness ==
    \E p \in Procs :
        /\ Returned(p)
        /\ ObtainedShortLived(p)
        /\ GoodAnswer(p)
        /\ JudgedHeld(p)
        /\ HeldBy(p).ExpiresIn = tokenExpiryBufferInSeconds
        /\ ClockOf(p) = HeldBy(p).IssuedAt
        /\ totalScrapes = 2
        /\ scrapeFailures = 0

\* The scrapes that have been started: every goroutine's Collect calls scrape
\* once, after it has taken the lock.
ScrapesStarted == Cardinality({p \in Procs : pc[p] \notin {"idle", "scrape"}})

\* The calls of Collect that have returned.
CollectsCompleted ==
    Cardinality({p \in Procs : pc[p] \in {"gather", "gather2", "served", "done"}})

\* No scrape is between its first statement and its return.
NoScrapeInFlight == \A p \in Procs : pc[p] \notin AfterInc

\* C22: failures <= attempts in every state, also with concurrent collects;
\* when no scrape is in flight, attempts is the number of scrapes started and
\* attempts - failures is the number of scrapes that replaced the
\* observation; when N collects have completed and none is under way,
\* attempts = N.
C22_CountersAccountForScrapes ==
    /\ scrapeFailures <= totalScrapes
    /\ NoScrapeInFlight =>
          /\ totalScrapes = ScrapesStarted
          /\ totalScrapes - scrapeFailures = replaced
    /\ (\A p \in Procs : pc[p] \notin InCollect) =>
          totalScrapes = CollectsCompleted

\* Two concurrent collects have completed, one scrape failed and the other
\* replaced the observation.
C22_Witness ==
    /\ CollectsCompleted = 2
    /\ totalScrapes = 2
    /\ scrapeFailures = 1
    /\ replaced = 1
    /\ limit = 100
    /\ remaining = 76

====
